---------------------------- MODULE Spec2Model ----------------------------
(***************************************************************************)
(* A model of packages/types-publisher/src/publish-registry.ts: the        *)
(* decision whether to publish a new types-registry, the per-registry      *)
(* workflow (generate, publish, sleep, validate, tag) and the recursive    *)
(* comparison assertJsonNewer of two JSON documents.                       *)
(***************************************************************************)
EXTENDS Integers, Sequences, FiniteSets, TLC

(***************************************************************************)
(* JavaScript strings.  A string value is a sequence of one-character      *)
(* strings, so that the code-unit order of >= and the parse of a version   *)
(* can be computed.  Object keys, names and tags are only ever compared    *)
(* for equality and stay TLA+ strings.                                     *)
(***************************************************************************)
Digits == <<"0", "1", "2", "3", "4", "5", "6", "7", "8", "9">>

IsDigit(c) == \E i \in 1..10 : Digits[i] = c

DigitValue(c) == (CHOOSE i \in 1..10 : Digits[i] = c) - 1

\* The UTF-16 code unit of a character of the alphabet the model uses.
CharCode(c) ==
    CASE c = " " -> 32
      [] c = "." -> 46
      [] IsDigit(c) -> 48 + DigitValue(c)
      [] c = "O" -> 79
      [] c = "[" -> 91
      [] c = "]" -> 93
      [] c = "a" -> 97
      [] c = "b" -> 98
      [] c = "c" -> 99
      [] c = "e" -> 101
      [] c = "j" -> 106
      [] c = "o" -> 111
      [] c = "t" -> 116

\* a < b for two strings: the first differing code unit decides, a proper
\* prefix is smaller.
RECURSIVE StrLess(_, _)
StrLess(a, b) ==
    IF b = <<>> THEN FALSE
    ELSE IF a = <<>> THEN TRUE
    ELSE IF CharCode(Head(a)) # CharCode(Head(b))
         THEN CharCode(Head(a)) < CharCode(Head(b))
         ELSE StrLess(Tail(a), Tail(b))

\* The decimal digits of a natural number, as `${n}` writes them.
RECURSIVE NatToStr(_)
NatToStr(n) ==
    IF n < 10 THEN <<Digits[n + 1]>>
    ELSE NatToStr(n \div 10) \o <<Digits[(n % 10) + 1]>>

\* The number a non-empty string of digits denotes.
RECURSIVE DigitsToNat(_)
DigitsToNat(s) ==
    IF Len(s) = 1 THEN DigitValue(s[1])
    ELSE 10 * DigitsToNat(SubSeq(s, 1, Len(s) - 1)) + DigitValue(s[Len(s)])

AllDigits(s) == s # <<>> /\ \A i \in 1..Len(s) : IsDigit(s[i])

\* s.split("."): the pieces of s between its dots.
RECURSIVE SplitDots(_)
SplitDots(s) ==
    IF \A i \in 1..Len(s) : s[i] # "." THEN <<s>>
    ELSE LET d == CHOOSE i \in 1..Len(s) :
                      s[i] = "." /\ \A j \in 1..(i - 1) : s[j] # "."
         IN  <<SubSeq(s, 1, d - 1)>> \o SplitDots(SubSeq(s, d + 1, Len(s)))

(***************************************************************************)
(* Semver (lib/versions).  A version is <<major, minor, patch>>; NoSemver  *)
(* is the undefined that tryParse returns for a string that is no dotted   *)
(* triple of digit runs.                                                   *)
(***************************************************************************)
NoSemver == <<>>

SemverTryParse(s) ==
    LET parts == SplitDots(s)
    IN  IF Len(parts) = 3 /\ \A i \in 1..3 : AllDigits(parts[i])
        THEN <<DigitsToNat(parts[1]), DigitsToNat(parts[2]), DigitsToNat(parts[3])>>
        ELSE NoSemver

SemverEquals(a, b) == a[1] = b[1] /\ a[2] = b[2] /\ a[3] = b[3]

SemverGreaterThan(a, b) ==
    \/ a[1] > b[1]
    \/ a[1] = b[1] /\ a[2] > b[2]
    \/ a[1] = b[1] /\ a[2] = b[2] /\ a[3] > b[3]

VersionString(v) ==
    NatToStr(v[1]) \o <<".">> \o NatToStr(v[2]) \o <<".">> \o NatToStr(v[3])

(***************************************************************************)
(* JSON values.  Every value is a record of one shape; t is what typeof    *)
(* answers and selects the field that holds the value.  An object is a     *)
(* function from its own keys to values.                                   *)
(***************************************************************************)
NoProps == [k \in {} |-> 0]

JStr(s) == [t |-> "string", s |-> s, n |-> 0, b |-> FALSE, o |-> NoProps]

JNum(n) == [t |-> "number", s |-> <<>>, n |-> n, b |-> FALSE, o |-> NoProps]

JBool(b) == [t |-> "boolean", s |-> <<>>, n |-> 0, b |-> b, o |-> NoProps]

JObj(o) == [t |-> "object", s |-> <<>>, n |-> 0, b |-> FALSE, o |-> o]


(***************************************************************************)
(* The relational operator >= of JavaScript on two JSON values: an object  *)
(* operand becomes the string "[object Object]"; two strings compare by    *)
(* code units; otherwise both sides become numbers, and a comparison with  *)
(* NaN is false.  Of the strings, only the empty one and runs of digits    *)
(* denote numbers here (the model's strings hold no sign, fraction,        *)
(* exponent or blank).                                                     *)
(***************************************************************************)
ObjectObject ==
    <<"[", "o", "b", "j", "e", "c", "t", " ", "O", "b", "j", "e", "c", "t", "]">>

ToPrimitive(v) == IF v.t = "object" THEN JStr(ObjectObject) ELSE v

ToNumber(v) ==
    CASE v.t = "number" -> [nan |-> FALSE, v |-> v.n]
      [] v.t = "boolean" -> [nan |-> FALSE, v |-> IF v.b THEN 1 ELSE 0]
      [] v.t = "string" /\ v.s = <<>> -> [nan |-> FALSE, v |-> 0]
      [] v.t = "string" /\ AllDigits(v.s) -> [nan |-> FALSE, v |-> DigitsToNat(v.s)]
      [] OTHER -> [nan |-> TRUE, v |-> 0]

JsGreaterEq(x, y) ==
    LET px == ToPrimitive(x)
        py == ToPrimitive(y)
    IN  IF px.t = "string" /\ py.t = "string"
        THEN ~StrLess(px.s, py.s)
        ELSE LET nx == ToNumber(px)
                 ny == ToNumber(py)
             IN  ~nx.nan /\ ~ny.nan /\ nx.v >= ny.v

\* newer[key] === older[key] where newer[key] is a boolean.
JsStrictEqBool(x, y) == y.t = "boolean" /\ x.b = y.b

\* Semver.tryParse of a value: a value that is no string is first turned
\* into one, and none of those strings is a version.
TryParseValue(v) == IF v.t = "string" THEN SemverTryParse(v.s) ELSE NoSemver

\* Object.keys(v): the own keys of an object, the indices of a string, and
\* nothing for a number or a boolean.
ObjectKeys(v) ==
    CASE v.t = "object" -> DOMAIN v.o
      [] v.t = "string" -> {ToString(i - 1) : i \in 1..Len(v.s)}
      [] OTHER -> {}

\* v[key] for a key of Object.keys(v).
GetProp(v, key) ==
    IF v.t = "object" THEN v.o[key]
    ELSE JStr(<<v.s[CHOOSE i \in 1..Len(v.s) : ToString(i - 1) = key]>>)

\* newer.hasOwnProperty(key) looks the method up on newer itself: an own
\* property named hasOwnProperty hides Object.prototype's method, and as no
\* JSON value is a function the call then throws a TypeError.
HasOwnPropertyThrows(newer) == "hasOwnProperty" \in DOMAIN newer.o

HasOwnProperty(newer, key) == key \in DOMAIN newer.o

\* A mutant of StringCondition: the versions are not parsed, the two values
\* are always compared by >=.
StringConditionNative(nv, ov) == JsGreaterEq(nv, ov)

\* The condition asserted for a key of both documents whose newer value is
\* a string.
StringCondition(nv, ov) ==
    LET newerver == TryParseValue(nv)
        olderver == TryParseValue(ov)
    IN  IF newerver # NoSemver /\ olderver # NoSemver
        THEN SemverGreaterThan(newerver, olderver) \/ SemverEquals(newerver, olderver)
        ELSE JsGreaterEq(nv, ov)

(***************************************************************************)
(* assertJsonNewer(newer, older).  The result is the set of ways the call  *)
(* can end over the orders in which Object.keys may list older's keys:     *)
(* {"ok"} when it returns, else the errors that the first failing key can  *)
(* throw ("AssertionError" of assert, "TypeError" of a call of a           *)
(* non-function).  Whether the call fails does not depend on the order.    *)
(***************************************************************************)
RECURSIVE assertJsonNewer(_, _)
assertJsonNewer(newer, older) ==
    LET keys == ObjectKeys(older)
        keyErrors(key) ==
            LET nv == newer.o[key]
                ov == GetProp(older, key)
            IN  CASE nv.t = "string" ->
                       IF StringCondition(nv, ov) THEN {} ELSE {"AssertionError"}
                  [] nv.t = "number" ->
                       IF JsGreaterEq(nv, ov) THEN {} ELSE {"AssertionError"}
                  [] nv.t = "boolean" ->
                       IF JsStrictEqBool(nv, ov) THEN {} ELSE {"AssertionError"}
                  [] OTHER -> assertJsonNewer(nv, ov) \ {"ok"}
        errors == UNION {keyErrors(key) : key \in {k \in keys : HasOwnProperty(newer, k)}}
    IN  IF keys # {} /\ HasOwnPropertyThrows(newer) THEN {"TypeError"}
        ELSE IF errors = {} THEN {"ok"}
        ELSE errors


(***************************************************************************)
(* Bounds of the model.                                                    *)
(***************************************************************************)
\* Runs of publishRegistry in one behaviour.
MaxRuns == 2

(***************************************************************************)
(* Names and constants of publish-registry.ts.                             *)
(***************************************************************************)
typesRegistry == "types-registry"

RegistryNames == {"github", "npm"}

\* The package a registry's workflow publishes and tags.
PackageName(registryName) ==
    IF registryName = "github" THEN "@definitelytyped/types-registry" ELSE typesRegistry

PackageNames == {PackageName(r) : r \in RegistryNames}

millisecondsPerDay == 1000 * 60 * 60 * 24

\* isSevenDaysAfter(time), given diff = Date.now() - time.getTime() in
\* milliseconds: diff / millisecondsPerDay > 7 in real arithmetic.
isSevenDaysAfter(diff) == diff > 7 * millisecondsPerDay

\* computeHash(registry): a digest of the serialised registry, taken to be
\* free of collisions; the empty string is no digest.
computeHash(registry) == [sha |-> registry]

NoHash == [sha |-> JNum(0)]

(***************************************************************************)
(* generateRegistry and filterTags.  A typing is                           *)
(* [name, fullEscapedNpmName]; the cache is a function from the escaped    *)
(* names it holds to a package's dist-tags (tag -> version string).        *)
(***************************************************************************)
\* A mutant of filterTags: every tag is kept.
filterTagsKeepsAll(tags) == tags

filterTags(tags) ==
    LET latestTag == "latest"
        hasLatest == latestTag \in DOMAIN tags
        out == {tag \in DOMAIN tags :
                    tag = latestTag \/ ~hasLatest \/ tags[tag] # tags[latestTag]}
    IN  [tag \in out |-> tags[tag]]

\* A mutant of generateRegistry: the error names only the typing at which
\* the loop stopped.
generateRegistryFirstMissing(typings, cache) ==
    LET Cached(i) == typings[i].fullEscapedNpmName \in DOMAIN cache
        missing == {i \in 1..Len(typings) : ~Cached(i)}
        first == CHOOSE i \in missing : \A j \in missing : i <= j
        names == {typings[i].name : i \in 1..Len(typings)}
        InfoOf(name) ==
            cache[typings[CHOOSE j \in 1..Len(typings) : typings[j].name = name]
                      .fullEscapedNpmName]
    IN  IF missing # {}
        THEN [ok |-> FALSE,
              missings |-> {typings[first].fullEscapedNpmName},
              entries |-> NoProps]
        ELSE [ok |-> TRUE,
              missings |-> {},
              entries |-> [name \in names |-> filterTags(InfoOf(name))]]

\* [ok |-> TRUE, registry] or, when a typing has no cached info,
\* [ok |-> FALSE, missings]: the names the thrown error lists.
generateRegistry(typings, cache) ==
    LET Cached(i) == typings[i].fullEscapedNpmName \in DOMAIN cache
        missing == {i \in 1..Len(typings) : ~Cached(i)}
        names == {typings[i].name : i \in 1..Len(typings)}
        InfoOf(name) ==
            LET i == CHOOSE j \in 1..Len(typings) :
                         /\ typings[j].name = name
                         /\ \A k \in (j + 1)..Len(typings) : typings[k].name # name
            IN  cache[typings[i].fullEscapedNpmName]
    IN  IF missing # {}
        THEN [ok |-> FALSE,
              missings |-> {typings[i].fullEscapedNpmName : i \in missing},
              entries |-> NoProps]
        ELSE [ok |-> TRUE,
              missings |-> {},
              entries |-> [name \in names |-> filterTags(InfoOf(name))]]

\* The registry as the JSON document that index.json holds:
\* { entries: { <package>: { <tag>: <version> } } }.
RegistryJson(entries) ==
    JObj([e \in {"entries"} |->
            JObj([name \in DOMAIN entries |->
                    JObj([tag \in DOMAIN entries[name] |-> JStr(entries[name][tag])])])])

\* The keys of a registry document's entries.
EntryKeys(doc) == DOMAIN doc.o["entries"].o


(***************************************************************************)
(* The inputs of a run: the typings of DefinitelyTyped, the cached npm     *)
(* info of their packages and the not-needed packages.                     *)
(***************************************************************************)
Typing(name) == [name |-> name, fullEscapedNpmName |-> "@types%2f" \o name]

Tags(latest) == [tag \in {"latest"} |-> VersionString(latest)]

CacheOf(node) ==
    [n \in {"@types%2fnode"} |-> Tags(node)]

CacheWith(node, jquery) ==
    [n \in {"@types%2fnode", "@types%2fjquery"} |->
        IF n = "@types%2fnode" THEN Tags(node) ELSE Tags(jquery)]

RunInput(typings, cache, notNeeded) ==
    [typings |-> typings, cache |-> cache, notNeeded |-> notNeeded]

RunInputs ==
    { RunInput(<<Typing("node")>>, CacheOf(<<1, 0, 9>>), {}),
      RunInput(<<Typing("node")>>, CacheOf(<<1, 0, 10>>), {}),
      RunInput(<<Typing("node")>>, CacheOf(<<1, 0, 10>>), {"jquery"}),
      RunInput(<<Typing("node"), Typing("jquery")>>,
               CacheWith(<<1, 0, 10>>, <<3, 3, 0>>), {}),
      RunInput(<<Typing("node"), Typing("jquery")>>, CacheOf(<<1, 0, 10>>), {}) }

\* The registries that the inputs generate.
GeneratedDocs ==
    {RegistryJson(generateRegistry(i.typings, i.cache).entries) :
        i \in {j \in RunInputs : generateRegistry(j.typings, j.cache).ok}}

\* Date.now() - lastModified at the start of a run, in milliseconds.
ElapsedValues ==
    { 3 * millisecondsPerDay, 7 * millisecondsPerDay,
      7 * millisecondsPerDay + 1, 10 * millisecondsPerDay }

(***************************************************************************)
(* The remote state of a package: its published versions, each with the    *)
(* index.json and the typesPublisherContentHash of its package.json, and   *)
(* the dist-tags latest and next.                                          *)
(***************************************************************************)
Published(doc, hash) == [index |-> doc, typesPublisherContentHash |-> hash]

Remote(versions, latest, next) ==
    [versions |-> versions, latest |-> latest, next |-> next]

OldVersion == VersionString(<<0, 1, 8>>)

BaseVersion == VersionString(<<0, 1, 9>>)

\* Versions outside the 0.1.x scheme that a remote may hold.
StrayVersions == {VersionString(<<0, 2, 0>>), VersionString(<<1, 1, 0>>)}

\* The remote states a behaviour may start from: 0.1.8 (published before
\* package.json carried a content hash) and 0.1.9, at most one stray
\* version, and each tag on one of the versions.
InitialRemote(vs, doc, latest, next) ==
    Remote([v \in vs |->
               IF v = OldVersion
               THEN Published(RegistryJson(generateRegistry(<<Typing("node")>>,
                                  CacheOf(<<1, 0, 9>>)).entries), NoHash)
               ELSE IF v = BaseVersion THEN Published(doc, computeHash(doc))
               ELSE Published(RegistryJson(generateRegistry(<<Typing("node")>>,
                                  CacheOf(<<1, 0, 10>>)).entries), NoHash)],
           latest, next)

InitialVersionSets ==
    {{OldVersion, BaseVersion} \cup extra : extra \in {{}} \cup {{x} : x \in StrayVersions}}

InitialRemotes ==
    {r \in {InitialRemote(vs, doc, t[1], t[2]) :
                vs \in InitialVersionSets, doc \in GeneratedDocs,
                t \in ({OldVersion, BaseVersion} \cup StrayVersions)
                         \X ({OldVersion, BaseVersion} \cup StrayVersions)} :
        r.latest \in DOMAIN r.versions /\ r.next \in DOMAIN r.versions}

(***************************************************************************)
(* The state.                                                              *)
(***************************************************************************)
VARIABLES
    remote,       \* package name -> its remote state
    modifiedAge,  \* milliseconds since types-registry was last modified
    output,       \* what the run wrote to registryOutputPath
    installed,    \* the index.json the run installed under validateOutputPath
    pc,           \* where the run of publishRegistry stands
    chan,         \* the registryName of the running publishToRegistry
    run,          \* what publishRegistry computed before its first workflow
    calls,        \* registryName -> the calls of its workflow, in order
    outcome,      \* registryName -> "none", "ok" or the error that ended it
    log,          \* the messages logged by the run
    error,        \* the error that ended the run, or "none"
    runs,         \* the runs started so far
    published,    \* package name -> the versions that runs have published
    jnewer,       \* assertJsonNewer alone: its first argument,
    jolder,       \*   its second argument,
    jresult,      \*   and how the call ended
    gtypings,     \* generateRegistry alone: its typings,
    gcache,       \*   the cached npm info,
    gresult       \*   and what the call returned or threw

wfvars ==
    <<remote, modifiedAge, output, installed, pc, chan, run, calls, outcome,
      log, error, runs, published>>

jvars == <<jnewer, jolder, jresult>>

gvars == <<gtypings, gcache, gresult>>

vars == <<wfvars, jvars, gvars>>

NoRun ==
    [dry |-> FALSE, npmVersion |-> <<0, 0, 0>>, highestSemverVersion |-> <<0, 0, 0>>,
     npmContentHash |-> NoHash, elapsed |-> 0, registry |-> JObj(NoProps),
     newContentHash |-> NoHash,
     newVersion |-> <<>>, isTimeForNewVersion |-> FALSE, notNeeded |-> {}]

NoOutput ==
    [packageJson |-> [name |-> "", version |-> <<>>,
                      typesPublisherContentHash |-> NoHash, publishConfig |-> ""],
     index |-> JObj(NoProps)]

\* jresult before the call of assertJsonNewer has returned.
Pending == {}

\* gresult before the call of generateRegistry has returned.
NotCalled ==
    [called |-> FALSE, result |-> [ok |-> FALSE, missings |-> {}, entries |-> NoProps]]

NoCalls == [r \in RegistryNames |-> <<>>]

NoOutcome == [r \in RegistryNames |-> "none"]

Call(op, ok) == [op |-> op, ok |-> ok]

\* The pcs at which a run is between two steps of a workflow.
RunningPcs ==
    {"generate", "validateIsSubset", "publish", "sleep", "validate", "tag", "writeLog"}

(***************************************************************************)
(* fetchAndProcessNpmInfo and the decision of publishToRegistry.           *)
(***************************************************************************)
\* best(mapDefined(versions, tryParse), greaterThan): the highest of the
\* versions that parse.
getLatestVersion(versionStrings) ==
    LET parsed == {SemverTryParse(v) : v \in versionStrings} \ {NoSemver}
    IN  CHOOSE a \in parsed : \A b \in parsed : ~SemverGreaterThan(b, a)

\* A mutant of fetchAndProcessNpmInfo: the assertion that next is the highest
\* version is left out.
fetchWithoutAssert(info) ==
    LET npmVersion == SemverTryParse(info.latest)
        highestSemverVersion == getLatestVersion(DOMAIN info.versions)
    IN  [ok |-> TRUE,
         npmVersion |-> npmVersion,
         highestSemverVersion |-> highestSemverVersion,
         npmContentHash |->
             info.versions[VersionString(npmVersion)].typesPublisherContentHash]

fetchAndProcessNpmInfo(info) ==
    LET npmVersion == SemverTryParse(info.latest)
        highestSemverVersion == getLatestVersion(DOMAIN info.versions)
    IN  [ok |-> VersionString(highestSemverVersion) = info.next,
         npmVersion |-> npmVersion,
         highestSemverVersion |-> highestSemverVersion,
         npmContentHash |->
             info.versions[VersionString(npmVersion)].typesPublisherContentHash]

generatePackageJson(name, registryName, version, typesPublisherContentHash) ==
    [name |-> name, version |-> version,
     typesPublisherContentHash |-> typesPublisherContentHash,
     publishConfig |-> IF registryName = "github"
                       THEN "https://npm.pkg.github.com/" ELSE ""]

\* A mutant of Decision: the test of the hashes and of the time comes first.
DecisionHashFirst(r) ==
    IF r.npmContentHash # r.newContentHash /\ r.isTimeForNewVersion
    THEN [kind |-> "PublishNew", version |-> r.newVersion, reason |-> ""]
    ELSE IF ~SemverEquals(r.highestSemverVersion, r.npmVersion)
    THEN [kind |-> "RePromote", version |-> VersionString(r.highestSemverVersion),
          reason |-> ""]
    ELSE [kind |-> "NoOp", version |-> <<>>,
          reason |-> IF r.npmContentHash = r.newContentHash
                     THEN "No new packages published"
                     ELSE "Was modified less than a week ago"]

\* The branch publishToRegistry takes: the version it re-tags, the version
\* it publishes, or the reason it does neither.
Decision(r) ==
    IF ~SemverEquals(r.highestSemverVersion, r.npmVersion)
    THEN [kind |-> "RePromote", version |-> VersionString(r.highestSemverVersion),
          reason |-> ""]
    ELSE IF r.npmContentHash # r.newContentHash /\ r.isTimeForNewVersion
    THEN [kind |-> "PublishNew", version |-> r.newVersion, reason |-> ""]
    ELSE [kind |-> "NoOp", version |-> <<>>,
          reason |-> IF r.npmContentHash = r.newContentHash
                     THEN "No new packages published"
                     ELSE "Was modified less than a week ago"]


(***************************************************************************)
(* The collaborators.  NpmPublishClient (lib/npm-client) publishes the     *)
(* output directory under the name and version of its package.json and     *)
(* points the default tag "next" at it, and tag points a dist-tag at a     *)
(* version; a registry refuses to publish a version it holds and to tag    *)
(* one it does not hold.  npm install types-registry@next reads the npm    *)
(* package, whatever the registry of the running workflow.                 *)
(***************************************************************************)
ClientCanPublish(rem, packageJson) == packageJson.version \notin DOMAIN rem.versions

ClientPublish(rem, packageJson, index) ==
    [rem EXCEPT
        !.versions = [v \in DOMAIN rem.versions \cup {packageJson.version} |->
                         IF v = packageJson.version
                         THEN Published(index, packageJson.typesPublisherContentHash)
                         ELSE rem.versions[v]],
        !.next = packageJson.version]

ClientCanTag(rem, version) == version \in DOMAIN rem.versions

ClientTag(rem, version) == [rem EXCEPT !.latest = version]

\* The index.json that `npm install types-registry@next` puts under
\* validateTypesRegistryPath.
installForValidate(rem) == rem[typesRegistry].versions[rem[typesRegistry].next].index

NotInstalled == JObj(NoProps)

\* validateIsSubset: no key of the installed registry's entries may be
\* missing from the generated one unless its package is not needed.
validateIsSubset(actual, expected, notNeeded) ==
    \A key \in EntryKeys(actual) : key \in EntryKeys(expected) \/ key \in notNeeded

\* validate: the generated index.json is the newer, the installed one the
\* older argument of assertJsonNewer.
validate(generated, nodeModules) == assertJsonNewer(generated, nodeModules)

\* The error of the taxonomy that a way of ending assertJsonNewer is.
ErrorOf(thrown) == IF thrown = "AssertionError" THEN "RegressionDetected" ELSE thrown

NoError == [kind |-> "none", missings |-> {}]

Error(kind) == [kind |-> kind, missings |-> {}]

(***************************************************************************)
(* publishRegistry up to its first workflow: lines 29-43.                  *)
(***************************************************************************)
StartRun ==
    /\ pc = "idle"
    /\ runs < MaxRuns
    /\ \E dry \in BOOLEAN, input \in RunInputs,
          elapsed \in {e \in ElapsedValues : e >= modifiedAge} :
          LET info == fetchAndProcessNpmInfo(remote[typesRegistry])
              generated == generateRegistry(input.typings, input.cache)
              registry == RegistryJson(generated.entries)
          IN  /\ modifiedAge' = elapsed
              /\ IF ~info.ok \/ info.npmVersion[1] # 0 \/ info.npmVersion[2] # 1
                 THEN /\ pc' = "failed"
                      /\ error' = Error("InvariantViolation")
                      /\ run' = [NoRun EXCEPT !.dry = dry]
                 ELSE IF ~generated.ok
                 THEN /\ pc' = "failed"
                      /\ error' = [kind |-> "MissingCachedInfo",
                                   missings |-> generated.missings]
                      /\ run' = [NoRun EXCEPT !.dry = dry]
                 ELSE /\ pc' = "generate"
                      /\ error' = NoError
                      /\ run' = [dry |-> dry,
                                 npmVersion |-> info.npmVersion,
                                 highestSemverVersion |-> info.highestSemverVersion,
                                 npmContentHash |-> info.npmContentHash,
                                 elapsed |-> elapsed,
                                 registry |-> registry,
                                 newContentHash |-> computeHash(registry),
                                 newVersion |->
                                     VersionString(<<0, 1, info.npmVersion[3] + 1>>),
                                 isTimeForNewVersion |-> isSevenDaysAfter(elapsed),
                                 notNeeded |-> input.notNeeded]
    /\ chan' = "github"
    /\ runs' = runs + 1
    /\ calls' = NoCalls
    /\ outcome' = NoOutcome
    /\ log' = <<"=== Publishing types-registry ===">>
    /\ UNCHANGED <<remote, output, installed, published, jvars, gvars>>

\* A mutant of ChannelEnds: publishToRegistry("github") is not in a try.
ChannelEndsUncaught(result, lg) ==
    /\ outcome' = [outcome EXCEPT ![chan] = result]
    /\ log' = lg
    /\ IF result # "ok"
       THEN /\ chan' = chan
            /\ pc' = "failed"
            /\ error' = Error(result)
       ELSE /\ chan' = "npm"
            /\ pc' = IF chan = "github" THEN "generate" ELSE "writeLog"
            /\ error' = error

(***************************************************************************)
(* The end of a workflow: the try/catch around publishToRegistry("github") *)
(* logs its error and goes on to publishToRegistry("npm"), whose error     *)
(* nothing catches; after it the log is written.                           *)
(***************************************************************************)
ChannelEnds(result, lg) ==
    /\ outcome' = [outcome EXCEPT ![chan] = result]
    /\ IF chan = "github"
       THEN /\ chan' = "npm"
            /\ pc' = "generate"
            /\ error' = error
            /\ log' = IF result = "ok" THEN lg
                      ELSE Append(lg, "publishing to github failed")
       ELSE /\ chan' = chan
            /\ pc' = IF result = "ok" THEN "writeLog" ELSE "failed"
            /\ error' = IF result = "ok" THEN error ELSE Error(result)
            /\ log' = lg

Called(op, ok) == calls' = [calls EXCEPT ![chan] = Append(@, Call(op, ok))]

(***************************************************************************)
(* The calls that each branch of publishToRegistry awaits, in order:       *)
(* validateIsSubset and tag (lines 65-66), publish (line 69, lines         *)
(* 106-118) and validate (line 74).                                        *)
(***************************************************************************)
\* Mutants of the three branches: the tag comes before the validation, and
\* the branch that publishes nothing tags all the same.
rePromoteTagsFirst == <<"tag", "validateIsSubset">>

publishTagsFirst == <<"publish", "sleep", "tag", "validate">>

noOpTags == <<"validate", "tag">>

\* A mutant of the branch that re-tags: it validates and does not tag.
rePromoteWithoutTag == <<"validateIsSubset">>

rePromote == <<"validateIsSubset", "tag">>

publish == <<"publish", "sleep", "validate", "tag">>

noOp == <<"validate">>

\* A mutant of StepsOf: the workflow of npm decides again and finds the
\* version that the workflow of github has published.
StepsOfSecondChannel(kind) ==
    CASE kind = "RePromote" -> rePromote
      [] kind = "PublishNew" -> IF chan = "npm" THEN rePromote ELSE publish
      [] OTHER -> noOp

StepsOf(kind) ==
    CASE kind = "RePromote" -> rePromote
      [] kind = "PublishNew" -> publish
      [] OTHER -> noOp

\* The call that has returned was the last of its branch, or the next one
\* is awaited.
Returns(lg) ==
    LET steps == StepsOf(Decision(run).kind)
        i == CHOOSE j \in 1..Len(steps) : steps[j] = pc
    IN  IF i = Len(steps)
        THEN ChannelEnds("ok", lg)
        ELSE /\ pc' = steps[i + 1]
             /\ log' = lg
             /\ UNCHANGED <<chan, outcome, error>>

\* The call that has thrown ends the workflow.
Throws(kind) == ChannelEnds(kind, log)

(***************************************************************************)
(* publishToRegistry: lines 54-76.                                         *)
(***************************************************************************)
Generate ==
    /\ pc = "generate"
    /\ output' = [packageJson |-> generatePackageJson(PackageName(chan), chan,
                                      run.newVersion, run.newContentHash),
                  index |-> run.registry]
    /\ Called("generate", TRUE)
    /\ LET d == Decision(run)
       IN  /\ pc' = Head(StepsOf(d.kind))
           /\ log' = Append(log,
                  CASE d.kind = "RePromote" ->
                         "Old version of types-registry was never tagged latest, so updating"
                    [] d.kind = "PublishNew" ->
                         "New packages have been added, so publishing a new registry."
                    [] OTHER -> d.reason)
    /\ UNCHANGED <<remote, modifiedAge, installed, chan, run, outcome, error, runs,
                   published, jvars, gvars>>

ValidateIsSubset ==
    /\ pc = "validateIsSubset"
    /\ \E installs \in BOOLEAN :
          IF ~installs
          THEN /\ installed' = NotInstalled
               /\ Called("validateIsSubset", FALSE)
               /\ Throws("External")
          ELSE LET actual == installForValidate(remote)
               IN  /\ installed' = actual
                   /\ IF validateIsSubset(actual, output.index, run.notNeeded)
                      THEN /\ Called("validateIsSubset", TRUE)
                           /\ Returns(log)
                      ELSE /\ Called("validateIsSubset", FALSE)
                           /\ Throws("UnexpectedKey")
    /\ UNCHANGED <<remote, modifiedAge, output, run, runs, published, jvars, gvars>>

\* A mutant of Publish: the client publishes in a dry run too.
PublishIgnoresDry ==
    /\ pc = "publish"
    /\ \E accepted \in BOOLEAN :
          IF accepted /\ ClientCanPublish(remote[PackageName(chan)], output.packageJson)
          THEN /\ remote' = [remote EXCEPT ![PackageName(chan)] =
                                ClientPublish(@, output.packageJson, output.index)]
               /\ published' = [published EXCEPT ![PackageName(chan)] =
                                    @ \cup {output.packageJson.version}]
               /\ modifiedAge' = IF chan = "npm" THEN 0 ELSE modifiedAge
               /\ Called("publish", TRUE)
               /\ Returns(log)
          ELSE /\ Called("publish", FALSE)
               /\ Throws("External")
               /\ UNCHANGED <<remote, modifiedAge, published>>
    /\ UNCHANGED <<output, installed, run, runs, jvars, gvars>>

\* client.publish(registryOutputPath, packageJson, dry, log): line 107.
Publish ==
    /\ pc = "publish"
    /\ IF run.dry
       THEN /\ Called("publish", TRUE)
            /\ Returns(log)
            /\ UNCHANGED <<remote, modifiedAge, published>>
       ELSE \E accepted \in BOOLEAN :
               IF accepted /\ ClientCanPublish(remote[PackageName(chan)], output.packageJson)
               THEN /\ remote' = [remote EXCEPT ![PackageName(chan)] =
                                     ClientPublish(@, output.packageJson, output.index)]
                    /\ published' = [published EXCEPT ![PackageName(chan)] =
                                         @ \cup {output.packageJson.version}]
                    /\ modifiedAge' = IF chan = "npm" THEN 0 ELSE modifiedAge
                    /\ Called("publish", TRUE)
                    /\ Returns(log)
               ELSE /\ Called("publish", FALSE)
                    /\ Throws("External")
                    /\ UNCHANGED <<remote, modifiedAge, published>>
    /\ UNCHANGED <<output, installed, run, runs, jvars, gvars>>

\* The sleep of 60 seconds, skipped in a dry run: lines 109-114.
Sleep ==
    /\ pc = "sleep"
    /\ IF run.dry
       THEN /\ Returns(Append(log, "(dry) Skipping 60 second sleep..."))
            /\ UNCHANGED calls
       ELSE /\ Returns(Append(log, "Sleeping for 60 seconds ..."))
            /\ Called("sleep", TRUE)
    /\ UNCHANGED <<remote, modifiedAge, output, installed, run, runs, published, jvars, gvars>>

\* validate(log): lines 142-148.
Validate ==
    /\ pc = "validate"
    /\ \E installs \in BOOLEAN :
          IF ~installs
          THEN /\ installed' = NotInstalled
               /\ Called("validate", FALSE)
               /\ Throws("External")
          ELSE LET nodeModules == installForValidate(remote)
               IN  /\ installed' = nodeModules
                   /\ \E end \in validate(output.index, nodeModules) :
                         IF end = "ok"
                         THEN /\ Called("validate", TRUE)
                              /\ Returns(log)
                         ELSE /\ Called("validate", FALSE)
                              /\ Throws(ErrorOf(end))
    /\ UNCHANGED <<remote, modifiedAge, output, run, runs, published, jvars, gvars>>

\* client.tag(packageName, version, "latest", dry, log): lines 66 and 117.
Tag ==
    /\ pc = "tag"
    /\ LET version == Decision(run).version
       IN  IF run.dry
           THEN /\ Called("tag", TRUE)
                /\ Returns(log)
                /\ UNCHANGED <<remote, modifiedAge>>
           ELSE \E accepted \in BOOLEAN :
                   IF accepted /\ ClientCanTag(remote[PackageName(chan)], version)
                   THEN /\ remote' = [remote EXCEPT ![PackageName(chan)] =
                                         ClientTag(@, version)]
                        /\ modifiedAge' = IF chan = "npm" THEN 0 ELSE modifiedAge
                        /\ Called("tag", TRUE)
                        /\ Returns(log)
                   ELSE /\ Called("tag", FALSE)
                        /\ Throws("External")
                        /\ UNCHANGED <<remote, modifiedAge>>
    /\ UNCHANGED <<output, installed, run, runs, published, jvars, gvars>>

\* writeLog("publish-registry.md", logResult()): line 52.
WriteLog ==
    /\ pc = "writeLog"
    /\ pc' = "done"
    /\ UNCHANGED <<remote, modifiedAge, output, installed, chan, run, calls, outcome,
                   log, error, runs, published, jvars, gvars>>

\* The process ends: what it held in memory is lost, the remote state
\* stays, and the next run empties the directories before it reads them.
Forget ==
    /\ pc' = "idle"
    /\ chan' = "github"
    /\ run' = NoRun
    /\ calls' = NoCalls
    /\ outcome' = NoOutcome
    /\ log' = <<>>
    /\ error' = NoError
    /\ output' = NoOutput
    /\ installed' = NotInstalled
    /\ UNCHANGED <<remote, modifiedAge, runs, published, jvars, gvars>>

\* The run is over, with the log written or with an uncaught error.
Exit ==
    /\ pc \in {"done", "failed"}
    /\ Forget

\* The process is killed between two steps.
Crash ==
    /\ pc \in RunningPcs
    /\ Forget

Init ==
    /\ \E r \in InitialRemotes : remote = [p \in PackageNames |-> r]
    /\ modifiedAge = 0
    /\ output = NoOutput
    /\ installed = NotInstalled
    /\ pc = "idle"
    /\ chan = "github"
    /\ run = NoRun
    /\ calls = NoCalls
    /\ outcome = NoOutcome
    /\ log = <<>>
    /\ error = NoError
    /\ runs = 0
    /\ published = [p \in PackageNames |-> {}]
    /\ jnewer = JObj(NoProps)
    /\ jolder = JObj(NoProps)
    /\ jresult = Pending
    /\ gtypings = <<>>
    /\ gcache = NoProps
    /\ gresult = NotCalled

Next ==
    \/ StartRun
    \/ Generate
    \/ ValidateIsSubset
    \/ Publish
    \/ Sleep
    \/ Validate
    \/ Tag
    \/ WriteLog
    \/ Exit
    \/ Crash

Spec == Init /\ [][Next]_vars


(***************************************************************************)
(* assertJsonNewer on its own: the two documents are drawn from JsonDocs   *)
(* and the call is one step.                                               *)
(***************************************************************************)
\* The numbers of the documents are 0..MaxNumber.
MaxNumber == 2

StringPool ==
    {VersionString(<<0, 1, 9>>), VersionString(<<0, 1, 10>>), <<"a", "b">>, <<"b">>}

JsonLeaves ==
    {JStr(s) : s \in StringPool} \cup {JNum(n) : n \in 0..MaxNumber}
        \cup {JBool(b) : b \in BOOLEAN}

\* The functions from a subset of keys to values.
PropsOver(keys, values) ==
    {NoProps} \cup UNION {[D -> values] : D \in (SUBSET keys) \ {{}}}

\* Nested objects: over the key "a", or with an own property hasOwnProperty.
JsonInner ==
    {JObj(o) : o \in PropsOver({"a"}, JsonLeaves)}
        \cup {JObj([k \in {"hasOwnProperty"} |-> JNum(0)])}

\* Documents: "a" holds any value, "b" a leaf; and the documents with an own
\* property hasOwnProperty.
JsonDocs ==
    {JObj(oa @@ ob) : oa \in PropsOver({"a"}, JsonLeaves \cup JsonInner),
                      ob \in PropsOver({"b"}, JsonLeaves)}
        \cup {JObj(o @@ [k \in {"hasOwnProperty"} |-> JBool(TRUE)]) :
                 o \in PropsOver({"a"}, JsonLeaves)}

InitJson ==
    /\ remote = [p \in PackageNames |->
                    CHOOSE r \in InitialRemotes :
                        r.latest = BaseVersion /\ r.next = BaseVersion]
    /\ modifiedAge = 0
    /\ output = NoOutput
    /\ installed = NotInstalled
    /\ pc = "idle"
    /\ chan = "github"
    /\ run = NoRun
    /\ calls = NoCalls
    /\ outcome = NoOutcome
    /\ log = <<>>
    /\ error = NoError
    /\ runs = 0
    /\ published = [p \in PackageNames |-> {}]
    /\ jnewer \in JsonDocs
    /\ jolder \in JsonDocs
    /\ jresult = Pending
    /\ gtypings = <<>>
    /\ gcache = NoProps
    /\ gresult = NotCalled

AssertJsonNewerCall ==
    /\ jresult = Pending
    /\ jresult' = assertJsonNewer(jnewer, jolder)
    /\ UNCHANGED <<jnewer, jolder, wfvars, gvars>>

NextJson == AssertJsonNewerCall

SpecJson == InitJson /\ [][NextJson]_vars

(***************************************************************************)
(* generateRegistry on its own: the typings and the cache are drawn from   *)
(* bounded sets and the call is one step.                                  *)
(***************************************************************************)
\* The typings of a call are at most MaxTypings.
MaxTypings == 2

TagNames == {"latest", "next", "beta"}

TagVersions == {VersionString(<<1, 0, 0>>), VersionString(<<1, 1, 0>>)}

\* The dist-tags a package may have, none included.
DistTags == PropsOver(TagNames, TagVersions)

TypingPool == {Typing("node"), Typing("jquery")}

TypingLists == UNION {[1..n -> TypingPool] : n \in 0..MaxTypings}

\* The caches: each package of the pool is cached or not.
Caches == PropsOver({t.fullEscapedNpmName : t \in TypingPool}, DistTags)

InitRegistry ==
    /\ remote = [p \in PackageNames |->
                    CHOOSE r \in InitialRemotes :
                        r.latest = BaseVersion /\ r.next = BaseVersion]
    /\ modifiedAge = 0
    /\ output = NoOutput
    /\ installed = NotInstalled
    /\ pc = "idle"
    /\ chan = "github"
    /\ run = NoRun
    /\ calls = NoCalls
    /\ outcome = NoOutcome
    /\ log = <<>>
    /\ error = NoError
    /\ runs = 0
    /\ published = [p \in PackageNames |-> {}]
    /\ jnewer = JObj(NoProps)
    /\ jolder = JObj(NoProps)
    /\ jresult = Pending
    /\ gtypings \in TypingLists
    /\ gcache \in Caches
    /\ gresult = NotCalled

GenerateRegistryCall ==
    /\ ~gresult.called
    /\ gresult' = [called |-> TRUE, result |-> generateRegistry(gtypings, gcache)]
    /\ UNCHANGED <<gtypings, gcache, wfvars, jvars>>

NextRegistry == GenerateRegistryCall

SpecRegistry == InitRegistry /\ [][NextRegistry]_vars


(***************************************************************************)
(* Properties.                                                             *)
(***************************************************************************)
HasCall(r, op) == \E i \in 1..Len(calls[r]) : calls[r][i].op = op

\* The run has passed the assertions on the remote state and has generated
\* the registry: its workflows take the branch Decision(run).
RunDecides ==
    pc # "idle" /\ error.kind \notin {"InvariantViolation", "MissingCachedInfo"}

HashesDiffer == run.npmContentHash # run.newContentHash

SevenDays == 7 * millisecondsPerDay

\* The calls of publish() before its tag.
BeforeTag ==
    <<Call("generate", TRUE), Call("publish", TRUE)>>
        \o (IF run.dry THEN <<>> ELSE <<Call("sleep", TRUE)>>)
        \o <<Call("validate", TRUE)>>

PublishNewInOrder(r) ==
    /\ \A i \in 1..Len(calls[r]) :
          calls[r][i].op = "tag" =>
             i = Len(BeforeTag) + 1 /\ SubSeq(calls[r], 1, i - 1) = BeforeTag
    /\ (\E i \in 1..Len(calls[r]) : calls[r][i] = Call("validate", FALSE))
          => ~HasCall(r, "tag")

\* C1: in the workflow that publishes a new version, of either registry,
\* tag is called only after generate, publish, the sleep (unless the run is
\* dry) and a validate that returned, in this order and with nothing else
\* between; after a validate that threw, tag is not called; and "latest"
\* moves only in the step of that tag, to the new version, in a run that
\* is not dry.
C1_TagAfterPublishSleepValidate ==
    [][\A r \in RegistryNames :
          (RunDecides' /\ Decision(run').kind = "PublishNew") =>
             /\ PublishNewInOrder(r)'
             /\ remote'[PackageName(r)].latest # remote[PackageName(r)].latest =>
                   /\ remote'[PackageName(r)].latest = run'.newVersion
                   /\ calls'[r] = BeforeTag' \o <<Call("tag", TRUE)>>
                   /\ ~run'.dry]_vars

\* A run that is not dry has published 0.1.10 to npm, slept, validated and
\* tagged it latest.
C1_Witness ==
    /\ RunDecides
    /\ Decision(run).kind = "PublishNew"
    /\ ~run.dry
    /\ calls["npm"] = BeforeTag \o <<Call("tag", TRUE)>>
    /\ remote[typesRegistry].latest = run.newVersion
    /\ run.newVersion = VersionString(<<0, 1, 10>>)

\* C2: when the highest version differs from the version tagged latest, the
\* branch taken is the one that re-tags the highest version, whatever the
\* two content hashes and the time since the last modification are: the
\* workflow logs that, calls validateIsSubset next and never publish.
C2_RePromoteWhateverHashAndTime ==
    (RunDecides /\ ~SemverEquals(run.highestSemverVersion, run.npmVersion)) =>
        /\ Decision(run).kind = "RePromote"
        /\ Decision(run).version = VersionString(run.highestSemverVersion)
        /\ \A r \in RegistryNames :
              /\ ~HasCall(r, "publish")
              /\ Len(calls[r]) >= 2 => calls[r][2].op = "validateIsSubset"
              /\ calls[r] # <<>> =>
                    \E i \in 1..Len(log) : log[i] =
                       "Old version of types-registry was never tagged latest, so updating"

\* The highest version is not tagged latest while the hashes differ and more
\* than seven days have passed, and the workflow of npm has validated the
\* subset and is about to tag.
C2_Witness ==
    /\ RunDecides
    /\ ~SemverEquals(run.highestSemverVersion, run.npmVersion)
    /\ HashesDiffer
    /\ run.isTimeForNewVersion
    /\ chan = "npm"
    /\ pc = "tag"

\* C3: when the highest version is the one tagged latest, a new version is
\* published exactly when the hashes differ and at least seven days have
\* passed since the last modification, seven days exactly included; its
\* number is 0.1.(patch + 1).
C3_PublishNewFromSevenDays ==
    (RunDecides /\ SemverEquals(run.highestSemverVersion, run.npmVersion)) =>
        /\ Decision(run).kind = "PublishNew"
              <=> (HashesDiffer /\ run.elapsed >= SevenDays)
        /\ Decision(run).kind = "PublishNew" =>
              Decision(run).version = VersionString(<<0, 1, run.npmVersion[3] + 1>>)

\* C4: when the highest version is the one tagged latest, and the hashes are
\* equal or fewer than seven days have passed, nothing is published: the
\* reason logged is "No new packages published" whenever the hashes are
\* equal and "Was modified less than a week ago" only when they differ;
\* neither publish nor tag is called and nothing sleeps; the one call after
\* generate is validate, which compares the generated registry with the
\* index.json of the version tagged latest.
C4_NoOpStillValidates ==
    (RunDecides /\ SemverEquals(run.highestSemverVersion, run.npmVersion)) =>
        /\ ~(HashesDiffer /\ run.elapsed >= SevenDays) => Decision(run).kind = "NoOp"
        /\ Decision(run).kind = "NoOp" =>
              /\ Decision(run).reason =
                    IF HashesDiffer THEN "Was modified less than a week ago"
                    ELSE "No new packages published"
              /\ \A r \in RegistryNames :
                    /\ ~HasCall(r, "publish") /\ ~HasCall(r, "tag") /\ ~HasCall(r, "sleep")
                    /\ calls[r] # <<>> =>
                          \E i \in 1..Len(log) : log[i] = Decision(run).reason
                    /\ Len(calls[r]) >= 2 => Len(calls[r]) = 2 /\ calls[r][2].op = "validate"
                    /\ outcome[r] = "ok" => calls[r][2] = Call("validate", TRUE)
                    /\ (r = chan /\ Len(calls[r]) = 2 /\ calls[r][2].ok) =>
                          /\ output.index = run.registry
                          /\ installed = remote[typesRegistry]
                                 .versions[VersionString(run.npmVersion)].index

\* Both workflows of a run that publishes nothing have validated; the hashes
\* differ, and the run started three days after the last modification.
C4_Witness ==
    /\ RunDecides
    /\ pc = "done"
    /\ Decision(run).kind = "NoOp"
    /\ HashesDiffer
    /\ run.elapsed < SevenDays
    /\ \A r \in RegistryNames : calls[r] = <<Call("generate", TRUE), Call("validate", TRUE)>>

\* The versions of a package that a run has published and that are above
\* the version its tag latest points at.
Unpromoted(p) ==
    {v \in published[p] :
        SemverGreaterThan(SemverTryParse(v), SemverTryParse(remote[p].latest))}

\* C5: while a version v that a run has published to a registry is not
\* tagged latest there, a run that starts and passes its assertions takes
\* the branch that re-tags v, and no step publishes another version to that
\* registry.
C5_NextRunRePromotes ==
    [][\A r \in RegistryNames : \A v \in Unpromoted(PackageName(r)) :
          /\ (pc = "idle" /\ pc' = "generate") =>
                Decision(run').kind = "RePromote" /\ Decision(run').version = v
          /\ published'[PackageName(r)] = published[PackageName(r)]]_vars

\* The calls of the branch that re-tags, as far as they have come.
RePromoteInOrder(r) ==
    /\ ~HasCall(r, "publish") /\ ~HasCall(r, "sleep") /\ ~HasCall(r, "validate")
    /\ \A i \in 1..Len(calls[r]) :
          calls[r][i].op = "tag" =>
             /\ i = 3
             /\ SubSeq(calls[r], 1, 2)
                   = <<Call("generate", TRUE), Call("validateIsSubset", TRUE)>>
    /\ (\E i \in 1..Len(calls[r]) : calls[r][i] = Call("validateIsSubset", FALSE))
          => ~HasCall(r, "tag")

\* C6: in the workflow that re-tags the highest version, of either registry,
\* publish is not called and nothing sleeps; tag is called only right after
\* a validateIsSubset that returned, and not after one that threw; and
\* "latest" moves only in the step of that tag, to the highest version, in a
\* run that is not dry.
C6_RePromoteValidatesSubsetThenTags ==
    [][\A r \in RegistryNames :
          (RunDecides' /\ Decision(run').kind = "RePromote") =>
             /\ RePromoteInOrder(r)'
             /\ remote'[PackageName(r)].latest # remote[PackageName(r)].latest =>
                   /\ remote'[PackageName(r)].latest
                         = VersionString(run'.highestSemverVersion)
                   /\ calls'[r] = <<Call("generate", TRUE),
                                    Call("validateIsSubset", TRUE), Call("tag", TRUE)>>
                   /\ ~run'.dry]_vars

\* A run that is not dry has re-tagged 0.1.9 on npm after validateIsSubset.
C6_Witness ==
    /\ RunDecides
    /\ Decision(run).kind = "RePromote"
    /\ ~run.dry
    /\ calls["npm"] = <<Call("generate", TRUE), Call("validateIsSubset", TRUE),
                        Call("tag", TRUE)>>
    /\ remote[typesRegistry].latest = VersionString(run.highestSemverVersion)
    /\ remote[typesRegistry].latest = BaseVersion

Failed(r) == outcome[r] \notin {"none", "ok"}

Logged(message) == \E i \in 1..Len(log) : log[i] = message

\* C7 as claimed: the error that ends the workflow of either registry is
\* caught and logged, so the run does not end with it, and the workflow of
\* the other registry is attempted in the same run.
C7_EitherFailureIsCaught ==
    \A r \in RegistryNames :
        Failed(r) =>
            /\ pc # "failed"
            /\ Logged("publishing to " \o r \o " failed")
            /\ \A o \in RegistryNames \ {r} : calls[o] # <<>> \/ (chan = o /\ pc = "generate")

\* C7 as amended: the error that ends the workflow of github is caught and
\* logged and the workflow of npm is attempted next; the error that ends the
\* workflow of npm, which runs second, is not caught: it ends the run, after
\* the workflow of github has been attempted.
C7_GithubFailureIsCaught ==
    /\ Failed("github") =>
          /\ Logged("publishing to github failed")
          /\ chan = "npm"
          /\ calls["npm"] # <<>> \/ pc = "generate"
          /\ pc = "failed" => Failed("npm")
    /\ Failed("npm") =>
          /\ pc = "failed"
          /\ error.kind = outcome["npm"]
          /\ calls["github"] # <<>>
    /\ (pc \in {"writeLog", "done"}) => outcome["npm"] = "ok" /\ outcome["github"] # "none"

\* The workflow of github has failed and the run has gone on to complete
\* the workflow of npm.
C7_Witness ==
    /\ Failed("github")
    /\ outcome["npm"] = "ok"
    /\ pc = "done"
    /\ Len(calls["npm"]) >= 2

\* What the claim calls a broken remote state: latest is no 0.1.x version,
\* or next is not the highest version.
BrokenRemote(info) ==
    \/ SemverTryParse(info.latest)[1] # 0
    \/ SemverTryParse(info.latest)[2] # 1
    \/ \E v \in DOMAIN info.versions :
          SemverGreaterThan(SemverTryParse(v), SemverTryParse(info.next))

\* C8: a run that starts while latest of types-registry is no 0.1.x version,
\* or while next is not its highest version, fails with an invariant
\* violation in its first step; a run that has failed so has written no
\* output, called nothing in either workflow, published nothing and moved
\* no tag, and it does nothing more.
C8_BrokenRemoteFailsBeforeWorkflows ==
    [][/\ (pc = "idle" /\ pc' # "idle" /\ BrokenRemote(remote[typesRegistry])) =>
             pc' = "failed" /\ error'.kind = "InvariantViolation"
       /\ (pc' = "failed" /\ error'.kind = "InvariantViolation") =>
             /\ calls' = NoCalls
             /\ output' = NoOutput
             /\ installed' = NotInstalled
             /\ remote' = remote
             /\ published' = published
       /\ (pc = "failed" /\ error.kind = "InvariantViolation") =>
             pc' = "idle" /\ remote' = remote]_vars

\* A run has failed with an invariant violation because next is not the
\* highest version, latest being a 0.1.x version.
C8_Witness ==
    /\ pc = "failed"
    /\ error.kind = "InvariantViolation"
    /\ SemverTryParse(remote[typesRegistry].latest)[1] = 0
    /\ SemverTryParse(remote[typesRegistry].latest)[2] = 1
    /\ BrokenRemote(remote[typesRegistry])

\* C9: assertJsonNewer(x, x) returns for every document x.
C9_Reflexive ==
    (jresult # Pending /\ jnewer = jolder) => jresult = {"ok"}

\* A document restricted, at every level, to the keys that the other
\* document has too.
RECURSIVE Common(_, _)
Common(x, y) ==
    IF x.t = "object" /\ y.t = "object"
    THEN JObj([k \in DOMAIN x.o \cap DOMAIN y.o |-> Common(x.o[k], y.o[k])])
    ELSE x

\* C10: the keys that only one of the two documents has, at any level,
\* never make assertJsonNewer fail: it fails exactly when it fails on the two
\* documents restricted to the keys that both have.
C10_OnlyCommonKeysCanFail ==
    jresult # Pending =>
        (jresult = {"ok"}
            <=> assertJsonNewer(Common(jnewer, jolder), Common(jolder, jnewer)) = {"ok"})

\* x < y of JavaScript, on two JSON values.
JsLess(x, y) ==
    LET px == ToPrimitive(x)
        py == ToPrimitive(y)
    IN  IF px.t = "string" /\ py.t = "string"
        THEN StrLess(px.s, py.s)
        ELSE LET nx == ToNumber(px)
                 ny == ToNumber(py)
             IN  ~nx.nan /\ ~ny.nan /\ nx.v < ny.v

\* When a key of both documents fails, by the values nv of newer and ov of
\* older: a number when nv < ov, a boolean when nv is not strictly equal to
\* ov, an object when a key of both nested objects fails.  (A string is left
\* to the condition the code asserts.)
RECURSIVE KeyFails(_, _)
KeyFails(nv, ov) ==
    CASE nv.t = "number" -> JsLess(nv, ov)
      [] nv.t = "boolean" -> ~(ov.t = "boolean" /\ nv.b = ov.b)
      [] nv.t = "object" ->
            \E k \in ObjectKeys(ov) \cap DOMAIN nv.o : KeyFails(nv.o[k], GetProp(ov, k))
      [] OTHER -> ~StringCondition(nv, ov)

\* C11: assertJsonNewer fails, with the assertion error that is a
\* RegressionDetected, exactly when some key of both documents fails: a
\* number that is less than the older value, a boolean that is not strictly
\* equal to it, or an object in which a nested key of both fails; otherwise
\* it returns.
C11_FailsExactlyOnAFailingKey ==
    jresult # Pending =>
        IF \E k \in DOMAIN jolder.o \cap DOMAIN jnewer.o :
               KeyFails(jnewer.o[k], jolder.o[k])
        THEN jresult = {"AssertionError"}
        ELSE jresult = {"ok"}

\* What C12 accepts for a newer value nv that is a string: when the older
\* value is a string too and both are versions, a newer version that the
\* older one is not above; otherwise a newer string that is not below the
\* older one by code units (by >= when the older value is no string).
StringAccepted(nv, ov) ==
    IF ov.t = "string" /\ SemverTryParse(nv.s) # NoSemver /\ SemverTryParse(ov.s) # NoSemver
    THEN ~SemverGreaterThan(SemverTryParse(ov.s), SemverTryParse(nv.s))
    ELSE IF ov.t = "string" THEN ~StrLess(nv.s, ov.s)
    ELSE JsGreaterEq(nv, ov)

\* The keys of both documents whose newer value is a string.
StringKeys == {k \in DOMAIN jnewer.o \cap DOMAIN jolder.o : jnewer.o[k].t = "string"}

CachedTags(name) ==
    gcache[gtypings[CHOOSE i \in 1..Len(gtypings) : gtypings[i].name = name]
               .fullEscapedNpmName]

C14_FilteredTagsIncludeLatest ==
    (gresult.called /\ gresult.result.ok) =>
        \A name \in DOMAIN gresult.result.entries :
            DOMAIN CachedTags(name) # {} =>
                "latest" \in DOMAIN gresult.result.entries[name]

\* The names of the typings that the cache does not hold.
Uncached ==
    {gtypings[i].fullEscapedNpmName : i \in 1..Len(gtypings)} \ DOMAIN gcache

\* C15: generateRegistry throws exactly when the cache does not hold one of
\* the typings; it then returns no registry and its error names every
\* typing that the cache does not hold; otherwise the registry has an entry
\* for every typing.
C15_MissingCachedInfoNamesAll ==
    gresult.called =>
        /\ gresult.result.ok <=> Uncached = {}
        /\ ~gresult.result.ok =>
              /\ gresult.result.missings = Uncached
              /\ gresult.result.entries = NoProps
        /\ gresult.result.ok =>
              DOMAIN gresult.result.entries
                  = {gtypings[i].name : i \in 1..Len(gtypings)}

\* Neither of two different typings is cached: the call has thrown and named
\* both.
C15_Witness ==
    /\ gresult.called
    /\ ~gresult.result.ok
    /\ Len(gtypings) = 2
    /\ gtypings[1] # gtypings[2]
    /\ DOMAIN gcache = {}
    /\ gresult.result.missings = {"@types%2fnode", "@types%2fjquery"}

\* The calls of a branch in a dry run: those of any run, without the sleep.
DryCalls(kind) ==
    <<"generate">> \o
        (CASE kind = "RePromote" -> <<"validateIsSubset", "tag">>
           [] kind = "PublishNew" -> <<"publish", "validate", "tag">>
           [] OTHER -> <<"validate">>)

\* The calls of a workflow are the first calls of a sequence, and only the
\* last of them may have thrown.
FollowsCalls(r, ops) ==
    /\ Len(calls[r]) <= Len(ops)
    /\ \A i \in 1..Len(calls[r]) :
          /\ calls[r][i].op = ops[i]
          /\ i < Len(calls[r]) => calls[r][i].ok

\* When the last call of a workflow is a validation that has returned, it
\* has compared the generated index.json with the installed one.
Validated(r) ==
    LET last == calls[r][Len(calls[r])]
       IN  /\ last.op = "validate" /\ last.ok =>
                 /\ installed = installForValidate(remote)
                 /\ "ok" \in assertJsonNewer(output.index, installed)
           /\ last.op = "validateIsSubset" /\ last.ok =>
                 /\ installed = installForValidate(remote)
                 /\ validateIsSubset(installed, output.index, run.notNeeded)

\* C16: no step of a dry run changes the versions or the tags of a package;
\* in each branch a dry run calls what any run calls, in the same order,
\* except that nothing sleeps; and a validation that returns in a dry run
\* has installed types-registry and compared it with the generated
\* registry.
C16_DryRunLeavesRemote ==
    /\ [][(run.dry \/ run'.dry) => remote' = remote /\ published' = published]_vars
    /\ []((RunDecides /\ run.dry) =>
             /\ \A r \in RegistryNames : FollowsCalls(r, DryCalls(Decision(run).kind))
             /\ calls[chan] # <<>> => Validated(chan))

\* A dry run has gone through both workflows of the branch that publishes:
\* publish, validate and tag have been called and types-registry is as it
\* was.
C16_Witness ==
    /\ RunDecides
    /\ run.dry
    /\ pc = "done"
    /\ Decision(run).kind = "PublishNew"
    /\ \A r \in RegistryNames :
          calls[r] = <<Call("generate", TRUE), Call("publish", TRUE),
                       Call("validate", TRUE), Call("tag", TRUE)>>
    /\ remote[typesRegistry].latest = BaseVersion
    /\ run.newVersion \notin DOMAIN remote[typesRegistry].versions

\* C17: in the workflow that publishes a new version, of either registry,
\* what validate has installed is the index.json of the version that the
\* workflow has just published to its registry, and validate returns
\* exactly when assertJsonNewer returns with the generated registry as
\* newer and the installed one as older.
C17_ValidatesWhatItPublished ==
    (RunDecides /\ ~run.dry /\ Decision(run).kind = "PublishNew"
        /\ Len(calls[chan]) >= 2) =>
        LET last == calls[chan][Len(calls[chan])]
        IN  (last.op = "validate" /\ installed # NotInstalled) =>
                /\ installed
                      = remote[PackageName(chan)].versions[run.newVersion].index
                /\ last.ok <=> assertJsonNewer(output.index, installed) = {"ok"}

\* next is the highest version of a package and latest is not above next.
NextIsHighest(rem) ==
    /\ rem.next = VersionString(getLatestVersion(DOMAIN rem.versions))
    /\ ~SemverGreaterThan(SemverTryParse(rem.latest), SemverTryParse(rem.next))

\* Every version that a step adds to a package is above all the versions
\* that the package had.
PublishesAbove(p) ==
    \A v \in DOMAIN remote'[p].versions \ DOMAIN remote[p].versions :
        \A w \in DOMAIN remote[p].versions :
            SemverGreaterThan(SemverTryParse(v), SemverTryParse(w))

BranchCalls(kind) ==
    CASE kind = "RePromote" -> <<"validateIsSubset", "tag">>
      [] kind = "PublishNew" ->
            IF run.dry THEN <<"publish", "validate", "tag">>
            ELSE <<"publish", "sleep", "validate", "tag">>
      [] OTHER -> <<"validate">>

\* C19: what a run has computed before its first workflow (the versions
\* and the hash of the remote state, the hash of the generated registry, the
\* new version and the seven-day test) does not change until the run ends;
\* the workflows of both registries make the calls of the one branch that
\* these values select, write the same version into package.json and tag
\* the same version, whatever the workflow of github has published or
\* tagged before that of npm starts.
C19_BothWorkflowsSameBranch ==
    /\ [][(pc # "idle" /\ pc' # "idle") => run' = run]_vars
    /\ [](RunDecides =>
             \A r \in RegistryNames :
                 /\ FollowsCalls(r, <<"generate">> \o BranchCalls(Decision(run).kind))
                 /\ (r = chan /\ calls[r] # <<>>) =>
                       output.packageJson.version = run.newVersion
                 /\ (~run.dry /\ calls[r] # <<>>
                        /\ calls[r][Len(calls[r])] = Call("tag", TRUE)) =>
                       remote[PackageName(r)].latest = Decision(run).version)

\* The workflow of github has published and tagged 0.1.10, and the workflow
\* of npm, in the same branch, has published 0.1.10 too.
C19_Witness ==
    /\ RunDecides
    /\ ~run.dry
    /\ Decision(run).kind = "PublishNew"
    /\ calls["github"] = BeforeTag \o <<Call("tag", TRUE)>>
    /\ remote[PackageName("github")].latest = run.newVersion
    /\ chan = "npm"
    /\ Len(calls["npm"]) >= 2
    /\ calls["npm"][2] = Call("publish", TRUE)
    /\ remote[typesRegistry].next = run.newVersion

=============================================================================
